---- MODULE Spec2Model ----
(***************************************************************************)
(* A model of graspologic's quadratic assignment solvers                   *)
(* (src/graspologic/match/qap.py): the dispatcher quadratic_assignment,    *)
(* the common input validation, the FAQ solver and the 2-opt solver.       *)
(*                                                                         *)
(* Conventions.  A numpy 1-D array is a function over 0..len-1 (the        *)
(* source's 0-based indices are kept).  A matrix is a function of rows,    *)
(* each a function of columns.  The arrays partial_match and partial_guess *)
(* are sequences of rows; row k of the source (0-based) is element k+1,    *)
(* and a row <<a, b>> holds column 0 in [1] and column 1 in [2].  The      *)
(* zero-row array (the source's default np.array([[], []]).T) is <<>>.     *)
(* Real numbers (the FAQ search position, tol) are exact rationals         *)
(* [num, den] in lowest terms with den > 0.  Error messages are the        *)
(* source's without their backquotes.                                      *)
(***************************************************************************)
EXTENDS Integers, Sequences, FiniteSets, TLC

VARIABLES
    method,         \* the method string handed to quadratic_assignment
    A, B,           \* the two matrices
    maximize,       \* option maximize
    partial_match,  \* option partial_match, after np.atleast_2d
    partial_guess,  \* option partial_guess (2-opt)
    P0,             \* option P0 (faq): a string or a matrix of rationals
    maxiter, tol,   \* options maxiter, tol (faq)
    shuffle_input,  \* option shuffle_input (faq)
    rng,            \* option rng: None, or for an integer seed the stream
                    \* that np.random.RandomState(seed) yields
    option_keys,    \* the keys of the options dict handed to quadratic_assignment
    ndim,           \* the ndim of A, B and partial_match as they were passed,
                    \* before np.atleast_2d
    lap_rule,       \* how scipy's linear_sum_assignment settles a tie
    helper_bound,   \* whether the name _check_unknown_options is bound in the
                    \* module's globals when _quadratic_assignment_2opt runs
    pc,             \* where the call stands
    perm,           \* 2-opt: the working permutation
    best_score,     \* 2-opt: best_score
    n_iter,         \* both solvers: n_iter
    pos,            \* 2-opt: index of the next pair of the current pass
    perm_A, perm_B, \* faq: the seed-first reorderings of A and B
    P,              \* faq: the search position
    res,            \* the OptimizeResult returned, or NoRes
    err,            \* the message of the exception raised, or ""
    exc,            \* the type of the exception raised, or ""
    first,          \* the result of an earlier, identical call, or NoRes
    storage,        \* which array owns the data P and the returned col_ind
                    \* refer to, and the arrays written in place so far
    history         \* 2-opt, a history of the sweep: the initial permutation,
                    \* the number of swaps accepted, and n_iter at the last one

vars == <<method, A, B, maximize, partial_match, partial_guess, P0, maxiter, tol,
          shuffle_input, rng, option_keys, ndim, lap_rule, helper_bound, pc, perm,
          best_score, n_iter, pos, perm_A, perm_B, P, res, err, exc, first, storage,
          history>>

inputs == <<method, A, B, maximize, partial_match, partial_guess, P0, maxiter, tol,
            shuffle_input, rng, option_keys, ndim, lap_rule, helper_bound>>

-----------------------------------------------------------------------------
(* Bounds of the model *)

\* largest number of nodes of the solver runs
MaxN == 3
\* matrix entries range over 0..MaxVal
MaxVal == 2
\* number of pairs (A, B) of each size the inputs are drawn from
NumMats == 2
\* largest number of nodes of the calls with malformed options
MaxNArgs == 2
\* largest number of rows of a partial_guess
MaxGuess == 2
\* largest maxiter of a FAQ call
MaxIter == 2

-----------------------------------------------------------------------------
(* Arrays *)

Range(f) == {f[x] : x \in DOMAIN f}

\* len(a) of a 0-based array
ALen(a) == Cardinality(DOMAIN a)

\* the empty 0-based array
Empty == [i \in {} |-> 0]

\* f itself: the comparison makes TLC build the function here, once, where
\* it would otherwise re-evaluate f's definition at every application
Built(f) == IF f = f THEN f ELSE f

\* a sequence as a 0-based array
ToArr(s) == [i \in 0..(Len(s) - 1) |-> s[i + 1]]

\* the elements of a finite set of integers in ascending order, as a sequence
RECURSIVE Ascending(_)
Ascending(S) ==
    IF S = {} THEN <<>>
    ELSE LET m == CHOOSE x \in S : \A y \in S : x <= y
         IN  <<m>> \o Ascending(S \ {m})

\* every ordering of the elements of S: the outcomes of rng.permutation(S)
Orderings(S) ==
    {s \in [1..Cardinality(S) -> S] : \A i, j \in 1..Cardinality(S) : s[i] = s[j] => i = j}

\* rng=None: no seed given
None == [rank |-> Empty, which |-> 0]

\* The random generator.  A stream stands for everything one generator
\* yields: rank orders the values a permutation is drawn over (the draw lists
\* them by ascending rank), which selects the outcome of rng.uniform.
Streams ==
    {[rank |-> ToArr(o), which |-> w] : o \in Orderings(0..(MaxN - 1)), w \in 1..2}

\* the global generator np.random, whose state nobody set: any stream
np_random == Streams

\* a generator that takes no notice of the seed
SeedIgnored == Streams

\* rng = check_random_state(rng): the global generator for None, and for an
\* integer seed the generator RandomState(seed), whose stream the seed fixes
check_random_state == IF rng = None THEN np_random ELSE {rng}

\* the ordering of S that generator g draws
Permutation(g, S) ==
    CHOOSE s \in Orderings(S) :
        \A i, j \in 1..Cardinality(S) : i < j => g.rank[s[i]] < g.rank[s[j]]

\* the outcomes of rng.permutation(S)
rng_permutation(S) == {Permutation(g, S) : g \in check_random_state}

\* column c (1 or 2) of a two-column array of rows
Col(pm, c) == [k \in 1..Len(pm) |-> pm[k][c]]

RECURSIVE SumOver(_, _)
\* sum of f[x] over x in S
SumOver(f, S) ==
    IF S = {} THEN 0
    ELSE LET x == CHOOSE y \in S : TRUE
         IN  f[x] + SumOver(f, S \ {x})

-----------------------------------------------------------------------------
(* _calc_score *)

\* a faulty score: np.sum(A * B[perm]), the rows of B permuted and its
\* columns left in place
ScoreRowsOnly(a, b, p) ==
    LET n == ALen(a)
        cell == [ij \in (0..(n - 1)) \X (0..(n - 1)) |->
                    a[ij[1]][ij[2]] * b[p[ij[1]]][ij[2]]]
    IN  SumOver(cell, DOMAIN cell)

\* np.sum(A * B[perm][:, perm]); perm has len(A) entries
_calc_score(a, b, p) ==
    LET n == ALen(a)
        cell == [ij \in (0..(n - 1)) \X (0..(n - 1)) |->
                    a[ij[1]][ij[2]] * b[p[ij[1]]][p[ij[2]]]]
    IN  SumOver(cell, DOMAIN cell)

-----------------------------------------------------------------------------
(* _common_input_validation *)

\* shape[0] and shape[1] of a matrix
NRows(M) == ALen(M)
NCols(M) == IF ALen(M) = 0 THEN 0 ELSE ALen(M[0])

\* shape[0] and shape[1] of an array of rows (the zero-row array is (0, 2))
PRows(pm) == Len(pm)
PCols(pm) == IF Len(pm) = 0 THEN 2 ELSE Len(pm[1])

\* (pm < 0).any() and (pm >= n).any()
AnyNegative(pm) == \E k \in 1..Len(pm) : \E c \in 1..Len(pm[k]) : pm[k][c] < 0
AnyAtLeast(pm, n) == \E k \in 1..Len(pm) : \E c \in 1..Len(pm[k]) : pm[k][c] >= n

\* not len(set(pm[:, c])) == len(pm[:, c])
ColRepeats(pm, c) == Cardinality(Range(Col(pm, c))) # Len(pm)

\* the ndim of an array of ndim d after np.atleast_2d
atleast_2d_ndim(d) == IF d < 2 THEN 2 ELSE d

\* the message of the ValueError raised, or "" when the inputs pass; a, b
\* and pm are the arrays after np.atleast_2d (of an array of more than two
\* dimensions, the first two)
_common_input_validation(a, b, pm) ==
    IF NRows(a) # NCols(a) THEN "A must be square"
    ELSE IF NRows(b) # NCols(b) THEN "B must be square"
    ELSE IF atleast_2d_ndim(ndim.A) # 2 \/ atleast_2d_ndim(ndim.B) # 2
         THEN "A and B must have exactly two dimensions"
    ELSE IF NRows(a) # NRows(b) THEN "A and B matrices must be of equal size"
    ELSE IF PRows(pm) > NRows(a)
         THEN "partial_match can have only as many seeds as there are nodes"
    ELSE IF PCols(pm) # 2 THEN "partial_match must have two columns"
    ELSE IF atleast_2d_ndim(ndim.partial_match) # 2
         THEN "partial_match must have exactly two dimensions"
    ELSE IF AnyNegative(pm)
         THEN "partial_match must contain only positive indices"
    ELSE IF AnyAtLeast(pm, ALen(a))
         THEN "partial_match entries must be less than number of nodes"
    ELSE IF ColRepeats(pm, 1) \/ ColRepeats(pm, 2)
         THEN "partial_match column entries must be unique"
    ELSE ""

\* the checks of partial_guess in _quadratic_assignment_2opt
CheckGuess(a, pg) ==
    IF PRows(pg) > NRows(a)
         THEN "partial_guess can have only as many entries as there are nodes"
    ELSE IF PCols(pg) # 2 THEN "partial_guess must have two columns"
    ELSE IF AnyNegative(pg)
         THEN "partial_guess must contain only positive indices"
    ELSE IF AnyAtLeast(pg, ALen(a))
         THEN "partial_guess entries must be less than number of nodes"
    ELSE IF ColRepeats(pg, 1) \/ ColRepeats(pg, 2)
         THEN "partial_guess column entries must be unique"
    ELSE ""

\* the result returned for n == 0 or a partial_match of n rows
TrivialResult(a, b, pm) ==
    LET cols == ToArr(Col(pm, 2))
    IN  [col_ind |-> cols, fun |-> _calc_score(a, b, cols), nit |-> 0]

NoRes == [col_ind |-> Empty, fun |-> 0, nit |-> -1]

-----------------------------------------------------------------------------
(* _quadratic_assignment_2opt: the initial permutation *)

\* arr[mask] = vals for a boolean mask (the set of its True indices): numpy
\* hands vals out to the masked indices in ascending index order, broadcasts
\* a single value, and raises ValueError on any other length mismatch
MaskFits(mask, vals) == Len(vals) = Cardinality(mask) \/ Len(vals) = 1

MaskAssign(arr, mask, vals) ==
    [i \in DOMAIN arr |->
        IF i \in mask
        THEN IF Len(vals) = Cardinality(mask)
             THEN vals[Cardinality({x \in mask : x < i}) + 1]
             ELSE vals[1]
        ELSE arr[i]]

\* guess_rows, guess_cols, fixed_rows, fixed_cols as the sets of True indices
guess_rows(pg) == Range(Col(pg, 1))
guess_cols(pg) == Range(Col(pg, 2))
fixed_rows(pm) == Range(Col(pm, 1))
fixed_cols(pm) == Range(Col(pm, 2))

\* perm after perm[guess_rows] = cg
GuessPerm(n, pg) ==
    MaskAssign([i \in 0..(n - 1) |-> 0], guess_rows(pg), Col(pg, 2))

\* perm after perm[fixed_rows] = cf ("match overrides guess")
FixedPerm(n, pm, pg) ==
    MaskAssign(GuessPerm(n, pg), fixed_rows(pm), Col(pm, 2))

random_rows(n, pm, pg) == (0..(n - 1)) \ (fixed_rows(pm) \cup guess_rows(pg))
random_cols(n, pm, pg) == (0..(n - 1)) \ (fixed_cols(pm) \cup guess_cols(pg))

\* whether perm[random_rows] = rng.permutation(...) can be carried out
RandomFits(n, pm, pg) ==
    Cardinality(random_cols(n, pm, pg)) = Cardinality(random_rows(n, pm, pg))
    \/ Cardinality(random_cols(n, pm, pg)) = 1

\* the initial permutations the rng can produce
InitialPerms(n, pm, pg) ==
    IF Len(pm) > 0 \/ Len(pg) > 0
    THEN {MaskAssign(FixedPerm(n, pm, pg), random_rows(n, pm, pg), draw) :
             draw \in rng_permutation(random_cols(n, pm, pg))}
    ELSE {ToArr(draw) : draw \in rng_permutation(0..(n - 1))}

\* a faulty choice of the free indices: every row, seeded or not
AllRows(n, pm, pg) == Ascending(0..(n - 1))

\* i_free, in ascending order
i_free(n, pm, pg) ==
    IF Len(pm) > 0 \/ Len(pg) > 0
    THEN Ascending((0..(n - 1)) \ fixed_rows(pm))
    ELSE Ascending(0..(n - 1))

\* a faulty pass: only the pairs of neighbouring free indices are tried
AdjacentPairs(free) ==
    [k \in 1..(Len(free) - 1) |-> <<free[k], free[k + 1]>>]

\* itertools.combinations_with_replacement(free, 2), in its order
RECURSIVE PairsFrom(_)
PairsFrom(free) ==
    IF Len(free) = 0 THEN <<>>
    ELSE [k \in 1..Len(free) |-> <<free[1], free[k]>>] \o PairsFrom(Tail(free))

Pairs == PairsFrom(i_free(ALen(A), partial_match, partial_guess))

\* perm[i], perm[j] = perm[j], perm[i]
Swap(p, i, j) == [p EXCEPT ![i] = p[j], ![j] = p[i]]

\* a comparison that also takes an equal score: operator.ge / operator.le
NotWorseScore(x, y) == IF maximize THEN x >= y ELSE x <= y

\* better = operator.gt if maximize else operator.lt
better(x, y) == IF maximize THEN x > y ELSE x < y

-----------------------------------------------------------------------------
(* Inputs *)

\* the weight patterns the matrices are drawn from: entries in 0..MaxVal,
\* neither symmetric nor hollow
Mat(n, s) ==
    [i \in 0..(n - 1) |-> [j \in 0..(n - 1) |->
        ((s + 1) * i + (s + 2) * j + s * i * j + s) % (MaxVal + 1)]]

\* an array of shape (r, c) of the same weight pattern
Rect(r, c, s) ==
    [i \in 0..(r - 1) |-> [j \in 0..(c - 1) |->
        ((s + 1) * i + (s + 2) * j + s * i * j + s) % (MaxVal + 1)]]

\* the pairs <<A, B>> of size n the calls are made with
Instances(n) == {<<Mat(n, s), Mat(n, s + NumMats)>> : s \in 1..NumMats}

\* the arrays of at most maxrows rows of c entries each over -1..n
RowLists(n, c, maxrows) ==
    UNION {[1..m -> [1..c -> (-1)..n]] : m \in 0..maxrows}

\* the partial_guess arrays, well-formed or not, the calls with malformed
\* options are made with: up to two rows of two entries, rows of one or of
\* three entries, and an array of n + 1 rows
ArgLists(n) ==
    RowLists(n, 2, 2) \cup RowLists(n, 1, 1) \cup RowLists(n, 3, 1)
        \cup {[k \in 1..(n + 1) |-> <<0, 0>>]}

\* the arrays of at most maxrows rows <<a, b>> over 0..n-1 with no value
\* repeated within a column: the partial_match and partial_guess arrays that
\* pass validation, rows in any order
PairLists(n, maxrows) ==
    UNION {{pl \in [1..m -> (0..(n - 1)) \X (0..(n - 1))] :
               \A k, l \in 1..m : k # l => pl[k][1] # pl[l][1] /\ pl[k][2] # pl[l][2]} :
           m \in 0..maxrows}

Min(x, y) == IF x < y THEN x ELSE y

-----------------------------------------------------------------------------
(* quadratic_assignment: the dispatcher *)

\* the method name taken as it is spelled
AsSpelled(m) == m

\* method.lower() on the spellings the inputs are drawn from
Lower(m) ==
    CASE m \in {"faq", "FAQ", "Faq"} -> "faq"
      [] m \in {"2opt", "2OPT", "2Opt"} -> "2opt"
      [] OTHER -> m

\* Arrays are named by the variable that holds them.  The caller's arrays:
CallerArrays == {"A", "B", "partial_match", "partial_guess", "P0"}

\* a conversion that hands back x itself when x holds integers already
SameData(x) == x

\* np.atleast_2d(x) of an ndarray: x itself or a view of it
atleast_2d(x) == x

\* x.astype(int): a newly allocated array
astype(x) == "astype(" \o x \o ")"

\* nothing allocated or written yet
NoStorage == [P |-> "", col_ind |-> "", written |-> {}]

\* before the sweep: no initial permutation, no swap accepted
NoHistory == [perm |-> Empty, accepted |-> 0, last_accept |-> 0]

\* the array that owns the data of the col_ind being returned:
\* partial_match[:, 1] of the validated partial_match (a view), perm, or
\* unshuffled_perm
ColIndData ==
    CASE pc \in {"faq", "2opt"} -> astype(atleast_2d("partial_match"))
      [] pc = "sweep" -> "perm"
      [] OTHER -> "unshuffled_perm"

\* raise an exception of type t with message msg
RaiseAs(t, msg) ==
    /\ pc' = "raised"
    /\ exc' = t
    /\ err' = msg
    /\ UNCHANGED <<inputs, first, history, storage, perm, best_score, n_iter, pos, perm_A, perm_B, P, res>>

\* raise ValueError(msg)
Raise(msg) == RaiseAs("ValueError", msg)

Return(r) ==
    /\ pc' = "returned"
    /\ res' = r
    /\ storage' = [storage EXCEPT
           !.col_ind = ColIndData,
           !.written = IF pc = "project" THEN @ \cup {"unshuffled_perm"} ELSE @]
    /\ UNCHANGED <<inputs, first, history, perm, best_score, n_iter, pos, perm_A, perm_B, P, err, exc>>

\* the caller keeps the result and makes the same call once more, with the
\* same A, B, options and seed
Repeat ==
    /\ pc = "returned"
    /\ first = NoRes
    /\ rng # None
    /\ first' = res
    /\ pc' = "call"
    /\ perm' = Empty
    /\ best_score' = 0
    /\ n_iter' = 0
    /\ pos' = 0
    /\ perm_A' = Empty
    /\ perm_B' = Empty
    /\ P' = Empty
    /\ res' = NoRes
    /\ storage' = NoStorage
    /\ history' = NoHistory
    /\ UNCHANGED <<inputs, err, exc>>

\* method not in methods
DispatchRaise ==
    /\ pc = "call"
    /\ Lower(method) \notin {"faq", "2opt"}
    /\ Raise("method must be in methods")

\* the keyword parameters of the two solvers; _quadratic_assignment_2opt
\* also takes **unknown_options
FaqParams ==
    {"maximize", "partial_match", "rng", "P0", "shuffle_input", "maxiter", "tol"}
TwoOptParams == {"maximize", "partial_match", "rng", "partial_guess"}

\* the keys of options that Python cannot bind to a parameter of the solver
Unbindable ==
    IF Lower(method) = "faq" THEN option_keys \ FaqParams ELSE {}

\* methods[method](A, B, **options) with a key the solver has no parameter
\* for: Python raises TypeError naming (one of) the unexpected keys
DispatchTypeError ==
    /\ pc = "call"
    /\ Lower(method) \in {"faq", "2opt"}
    /\ \E k \in Unbindable :
          RaiseAs("TypeError", "got an unexpected keyword argument " \o k)

\* res = methods[method](A, B, **options)
Dispatch ==
    /\ pc = "call"
    /\ Lower(method) \in {"faq", "2opt"}
    /\ Unbindable = {}
    /\ pc' = Lower(method)
    /\ UNCHANGED <<inputs, first, history, storage, perm, best_score, n_iter, pos, perm_A, perm_B, P, res, err, exc>>

-----------------------------------------------------------------------------
(* _quadratic_assignment_2opt *)

\* the first failure of the 2-opt call before sweeping, or "" when there is none
TwoOptError ==
    IF ~helper_bound THEN "name _check_unknown_options is not defined"
    ELSE IF _common_input_validation(A, B, partial_match) # ""
         THEN _common_input_validation(A, B, partial_match)
    ELSE IF ALen(A) = 0 \/ Len(partial_match) = ALen(A) THEN ""
    ELSE IF CheckGuess(A, partial_guess) # "" THEN CheckGuess(A, partial_guess)
    ELSE IF (Len(partial_match) > 0 \/ Len(partial_guess) > 0)
            /\ ~RandomFits(ALen(A), partial_match, partial_guess)
         THEN "boolean index assignment: shape mismatch"
    ELSE ""

\* the call raises: NameError, a ValueError of the validation, or numpy's
\* ValueError of the masked assignment of the random rows
TwoOptRaise ==
    /\ pc = "2opt"
    /\ TwoOptError # ""
    /\ RaiseAs(IF helper_bound THEN "ValueError" ELSE "NameError", TwoOptError)

\* check outlier cases
TwoOptTrivial ==
    /\ pc = "2opt"
    /\ TwoOptError = ""
    /\ ALen(A) = 0 \/ Len(partial_match) = ALen(A)
    /\ Return(TrivialResult(A, B, partial_match))

\* the initial permutation and its score
TwoOptStart ==
    /\ pc = "2opt"
    /\ TwoOptError = ""
    /\ ~(ALen(A) = 0 \/ Len(partial_match) = ALen(A))
    /\ \E p \in InitialPerms(ALen(A), partial_match, partial_guess) :
          /\ perm' = p
          /\ best_score' = _calc_score(A, B, p)
          /\ history' = [perm |-> p, accepted |-> 0, last_accept |-> 0]
    /\ n_iter' = 0
    /\ pos' = 1
    /\ pc' = "sweep"
    /\ storage' = [storage EXCEPT !.written =
           IF Len(partial_match) > 0 \/ Len(partial_guess) > 0
           THEN @ \cup {"guess_rows", "guess_cols", "fixed_rows", "fixed_cols", "perm"}
           ELSE @]
    /\ UNCHANGED <<inputs, first, perm_A, perm_B, P, res, err, exc>>

\* a faulty acceptance: the swap is kept and the pass goes on with the next
\* pair instead of restarting
SweepAcceptContinue ==
    /\ pc = "sweep"
    /\ pos <= Len(Pairs)
    /\ LET swapped == Swap(perm, Pairs[pos][1], Pairs[pos][2])
           score == _calc_score(A, B, swapped)
       IN  /\ better(score, best_score)
           /\ best_score' = score
           /\ perm' = swapped
    /\ n_iter' = n_iter + 1
    /\ pos' = pos + 1
    /\ storage' = [storage EXCEPT !.written = @ \cup {"perm"}]
    /\ history' = [history EXCEPT !.accepted = @ + 1, !.last_accept = n_iter + 1]
    /\ UNCHANGED <<inputs, first, pc, perm_A, perm_B, P, res, err, exc>>

\* one pair evaluation whose swap is better: the swap is kept and the pass
\* restarts from its first pair
SweepAccept ==
    /\ pc = "sweep"
    /\ pos <= Len(Pairs)
    /\ LET swapped == Swap(perm, Pairs[pos][1], Pairs[pos][2])
           score == _calc_score(A, B, swapped)
       IN  /\ better(score, best_score)
           /\ best_score' = score
           /\ perm' = swapped
    /\ n_iter' = n_iter + 1
    /\ pos' = 1
    /\ storage' = [storage EXCEPT !.written = @ \cup {"perm"}]
    /\ history' = [history EXCEPT !.accepted = @ + 1, !.last_accept = n_iter + 1]
    /\ UNCHANGED <<inputs, first, pc, perm_A, perm_B, P, res, err, exc>>

\* one pair evaluation whose swap is not better: the swap is undone
SweepReject ==
    /\ pc = "sweep"
    /\ pos <= Len(Pairs)
    /\ LET swapped == Swap(perm, Pairs[pos][1], Pairs[pos][2])
           score == _calc_score(A, B, swapped)
       IN  ~better(score, best_score)
    /\ n_iter' = n_iter + 1
    /\ pos' = pos + 1
    /\ storage' = [storage EXCEPT !.written = @ \cup {"perm"}]
    /\ UNCHANGED <<inputs, first, history, pc, perm, best_score, perm_A, perm_B, P, res, err, exc>>

\* a pass ended with no swap made: done
SweepDone ==
    /\ pc = "sweep"
    /\ pos > Len(Pairs)
    /\ Return([col_ind |-> perm, fun |-> best_score, nit |-> n_iter])

-----------------------------------------------------------------------------
(* Exact rational arithmetic for the floating-point values of the FAQ solver *)

Abs(x) == IF x < 0 THEN -x ELSE x

RECURSIVE GCD(_, _)
GCD(x, y) == IF y = 0 THEN x ELSE GCD(y, x % y)

\* the rational n/d (d # 0) in lowest terms with a positive denominator
Frac(n, d) ==
    LET g == GCD(Abs(n), Abs(d))
        sgn == IF d < 0 THEN -1 ELSE 1
    IN  [num |-> sgn * (n \div g), den |-> sgn * (d \div g)]

RInt(i) == [num |-> i, den |-> 1]
\* sums, products and comparisons cancel common factors first, which keeps
\* the intermediate integers small
RAdd(x, y) ==
    LET g == GCD(x.den, y.den)
    IN  Frac(x.num * (y.den \div g) + y.num * (x.den \div g), (x.den \div g) * y.den)
RNeg(x) == [num |-> -x.num, den |-> x.den]
RSub(x, y) == RAdd(x, RNeg(y))
RMul(x, y) ==
    LET g1 == GCD(Abs(x.num), y.den)
        g2 == GCD(Abs(y.num), x.den)
    IN  IF x.num = 0 \/ y.num = 0 THEN RInt(0)
        ELSE [num |-> (x.num \div g1) * (y.num \div g2),
              den |-> (x.den \div g2) * (y.den \div g1)]
\* x / y for y # 0
RDiv(x, y) ==
    RMul(x, IF y.num < 0 THEN [num |-> -y.den, den |-> -y.num]
            ELSE [num |-> y.den, den |-> y.num])
RECURSIVE FracLess(_, _, _, _)
\* a/b < c/d for b, d > 0, by comparing integer parts and then the
\* reciprocals of the fractional parts (no product is formed)
FracLess(a, b, c, d) ==
    IF a \div b # c \div d THEN a \div b < c \div d
    ELSE IF c % d = 0 THEN FALSE
    ELSE IF a % b = 0 THEN TRUE
    ELSE FracLess(d, c % d, b, a % b)
RLess(x, y) == FracLess(x.num, x.den, y.num, y.den)
RLeq(x, y) == ~RLess(y, x)
RAbs(x) == [num |-> Abs(x.num), den |-> x.den]

RECURSIVE RSumOver(_, _)
\* sum of the rationals f[x] over x in S
RSumOver(f, S) ==
    IF S = {} THEN RInt(0)
    ELSE LET x == CHOOSE y \in S : TRUE
         IN  RAdd(f[x], RSumOver(f, S \ {x}))

\* all bijections of 0..k-1, as 0-based arrays
Perms0(k) == {ToArr(s) : s \in Orderings(0..(k - 1))}

\* linear_sum_assignment(M, maximize): the column of each row in an optimal
\* assignment.  scipy fixes which optimum is returned on a tie and the
\* source does not say which: under lap_rule "any" the model allows each of
\* them at every call, under "lowest" and "highest" it is the first or the
\* last optimum in lexicographic order at every call
AssignCost(M, c) == RSumOver([i \in DOMAIN c |-> M[i][c[i]]], DOMAIN c)

\* c comes before d, or is d, in lexicographic order
LexLeq(c, d) ==
    \/ c = d
    \/ \E i \in DOMAIN c : c[i] < d[i] /\ \A j \in DOMAIN c : j < i => c[j] = d[j]

linear_sum_assignment(M, maxi) ==
    LET cost == [c \in Perms0(ALen(M)) |-> AssignCost(M, c)]
        optimal == {c \in DOMAIN cost :
                       \A d \in DOMAIN cost :
                           IF maxi THEN RLeq(cost[d], cost[c]) ELSE RLeq(cost[c], cost[d])}
    IN  CASE lap_rule = "any" -> optimal
          [] lap_rule = "lowest" -> {c \in optimal : \A d \in optimal : LexLeq(c, d)}
          [] lap_rule = "highest" -> {c \in optimal : \A d \in optimal : LexLeq(d, c)}

-----------------------------------------------------------------------------
(* _quadratic_assignment_faq: partition and initialization *)

n_seeds == Len(partial_match)
n_unseed == ALen(A) - n_seeds
SeedIdx == 0..(n_seeds - 1)
FreeIdx == 0..(n_unseed - 1)

\* np.setdiff1d(range(n), pm[:, c]): the unseeded indices, ascending
Nonseed(n, pm, c) == Ascending((0..(n - 1)) \ Range(Col(pm, c)))

\* the orders of nonseed_B the call can work with: rng.permutation of it
\* when shuffle_input, else ascending
NonseedBOrders(n, pm, shuffle) ==
    IF shuffle THEN rng_permutation((0..(n - 1)) \ Range(Col(pm, 2)))
    ELSE {Nonseed(n, pm, 2)}

\* the blocks upper[:, n:], lower[:, :n], lower[:, n:] that _split_matrix
\* cuts from X[p][:, p], entry by entry (the FAQ loop never reads the block
\* upper[:, :n])
_split_12(X, p, n, s, j) == X[p[s]][p[n + j]]
_split_21(X, p, n, i, s) == X[p[n + i]][p[s]]
_split_22(X, p, n, i, j) == X[p[n + i]][p[n + j]]

A12(s, j) == _split_12(A, perm_A, n_seeds, s, j)
A21(i, s) == _split_21(A, perm_A, n_seeds, i, s)
A22(i, j) == _split_22(A, perm_A, n_seeds, i, j)
B12(s, j) == _split_12(B, perm_B, n_seeds, s, j)
B21(i, s) == _split_21(B, perm_B, n_seeds, i, s)
B22(i, j) == _split_22(B, perm_B, n_seeds, i, j)

\* X.sum() for a matrix of rationals
MatSum(X) == RSumOver([i \in DOMAIN X |-> RSumOver(X[i], DOMAIN X[i])], DOMAIN X)

\* J = np.ones((k, k)) / k
Barycenter(k) == Built([i \in 0..(k - 1) |-> [j \in 0..(k - 1) |-> Frac(1, k)]])

\* the sums of P0 along axis 1 and axis 0
AxisSum1(X, i) == RSumOver(X[i], DOMAIN X[i])
AxisSum0(X, j) == RSumOver([i \in DOMAIN X |-> X[i][j]], DOMAIN X)

\* the tolerance of _check_init_input and _doubly_stochastic, 1e-3
tol_ds == Frac(1, 1000)
\* np.isclose(x, 1, atol=tol): abs(x - 1) <= atol + rtol * abs(1), rtol 1e-5
IsClose1(x) == RLeq(RAbs(RSub(x, RInt(1))), RAdd(tol_ds, Frac(1, 100000)))

\* the message of the ValueError raised, or "" when P0 passes
_check_init_input(X, n) ==
    IF NRows(X) # n \/ NCols(X) # n
    THEN "P0 matrix must have shape m' x m', where m'=n-m"
    ELSE IF \/ \E i \in DOMAIN X : ~IsClose1(AxisSum1(X, i))
            \/ \E j \in DOMAIN X : ~IsClose1(AxisSum0(X, j))
            \/ \E i \in DOMAIN X : \E j \in DOMAIN X[i] : X[i][j].num < 0
    THEN "P0 matrix must be doubly stochastic"
    ELSE ""

\* max_iter of _doubly_stochastic
max_iter == 1000

\* (np.abs(X.sum(axis=1) - 1) < tol).all() and (np.abs(X.sum(axis=0) - 1) < tol).all()
Balanced(X) ==
    /\ \A i \in DOMAIN X : RLess(RAbs(RSub(AxisSum1(X, i), RInt(1))), tol_ds)
    /\ \A j \in DOMAIN X : RLess(RAbs(RSub(AxisSum0(X, j), RInt(1))), tol_ds)

\* c = 1 / (r @ X) and r = 1 / (X @ c)
ColScale(X, r) ==
    [j \in DOMAIN X |-> RDiv(RInt(1), RSumOver([i \in DOMAIN X |-> RMul(r[i], X[i][j])], DOMAIN X))]
RowScale(X, c) ==
    [i \in DOMAIN X |-> RDiv(RInt(1), RSumOver([j \in DOMAIN X |-> RMul(X[i][j], c[j])], DOMAIN X))]

RECURSIVE SinkhornLoop(_, _, _, _)
\* the loop of _doubly_stochastic from round it, with r and P_eps as they stand
SinkhornLoop(X, r, P_eps, it) ==
    IF it = max_iter \/ Balanced(P_eps) THEN P_eps
    ELSE LET c == Built(ColScale(X, r))
             r2 == Built(RowScale(X, c))
         IN  SinkhornLoop(X, r2,
                 Built([i \in DOMAIN X |-> [j \in DOMAIN X |->
                     RMul(RMul(r2[i], X[i][j]), c[j])]]),
                 it + 1)

_doubly_stochastic(X) ==
    LET c == Built([j \in DOMAIN X |-> RDiv(RInt(1), AxisSum0(X, j))])
    IN  SinkhornLoop(X, Built(RowScale(X, c)), X, 0)

\* P = J * 0.5 + K * 0.5
RandomizedP(k, Kds) ==
    Built([i \in 0..(k - 1) |-> [j \in 0..(k - 1) |->
        RAdd(RMul(Frac(1, 2), Frac(1, k)), RMul(Frac(1, 2), Kds[i][j]))]])

-----------------------------------------------------------------------------
(* _quadratic_assignment_faq: one Frank-Wolfe iteration *)

\* obj_func_scalar
obj_func_scalar == IF maximize THEN -1 ELSE 1

\* const_sum = A21 @ B21.T + A12.T @ B12
const_sum(i, j) ==
    SumOver([s \in SeedIdx |-> A21(i, s) * B21(j, s) + A12(s, i) * B12(s, j)], SeedIdx)

\* grad_fp = const_sum + A22 @ P @ B22.T + A22.T @ P @ B22
grad_fp(X) ==
    Built([i \in FreeIdx |-> [j \in FreeIdx |->
        RAdd(RInt(const_sum(i, j)),
             MatSum([u \in FreeIdx |-> [v \in FreeIdx |->
                 RMul(RInt(A22(i, u) * B22(j, v) + A22(u, i) * B22(v, j)), X[u][v])]]))]])

\* Q = np.eye(n_unseed)[cols]
Eye(cols) ==
    Built([i \in DOMAIN cols |-> [j \in DOMAIN cols |->
        IF cols[i] = j THEN RInt(1) ELSE RInt(0)]])

\* the coefficients a and b of the objective along R = P - Q
StepCoefficients(X, cols) ==
    LET Q == Eye(cols)
        R == Built([i \in FreeIdx |-> [j \in FreeIdx |-> RSub(X[i][j], Q[i][j])]])
        \* ((R.T @ A21) * B21).sum()
        b21 == MatSum([i \in FreeIdx |-> [s \in SeedIdx |->
                   RMul(RSumOver([u \in FreeIdx |-> RMul(R[u][i], RInt(A21(u, s)))], FreeIdx),
                        RInt(B21(i, s)))]])
        \* ((R.T @ A12.T) * B12.T).sum()
        b12 == MatSum([i \in FreeIdx |-> [s \in SeedIdx |->
                   RMul(RSumOver([u \in FreeIdx |-> RMul(R[u][i], RInt(A12(s, u)))], FreeIdx),
                        RInt(B12(s, i)))]])
        \* AR22 = A22.T @ R and BR22 = B22 @ R.T
        AR22 == Built([i \in FreeIdx |-> [j \in FreeIdx |->
                   RSumOver([u \in FreeIdx |-> RMul(RInt(A22(u, i)), R[u][j])], FreeIdx)]])
        BR22 == Built([i \in FreeIdx |-> [j \in FreeIdx |->
                   RSumOver([u \in FreeIdx |-> RMul(RInt(B22(i, u)), R[j][u])], FreeIdx)]])
        \* (AR22 * B22.T[cols]).sum()
        b22a == MatSum([i \in FreeIdx |-> [j \in FreeIdx |->
                   RMul(AR22[i][j], RInt(B22(j, cols[i])))]])
        \* (A22 * BR22[cols]).sum()
        b22b == MatSum([i \in FreeIdx |-> [j \in FreeIdx |->
                   RMul(RInt(A22(i, j)), BR22[cols[i]][j])]])
    IN  [a |-> MatSum([i \in FreeIdx |-> [j \in FreeIdx |-> RMul(AR22[j][i], BR22[i][j])]]),
         b |-> RAdd(RAdd(b21, b12), RAdd(b22a, b22b))]

\* a step rule that never takes the critical point: the endpoint rule alone
EndpointOnly(a, b) ==
    IF RLeq(RInt(0), RMul(RAdd(b, a), RInt(obj_func_scalar))) THEN RInt(0) ELSE RInt(1)

\* the step size: the critical point -b / (2a) when it is the optimum on
\* [0, 1], else np.argmin([0, (b + a) * obj_func_scalar])
Alpha(a, b) ==
    LET s == RInt(obj_func_scalar)
    IN  IF RLess(RInt(0), RMul(a, s))
           /\ RLeq(RInt(0), RDiv(RNeg(b), RMul(RInt(2), a)))
           /\ RLeq(RDiv(RNeg(b), RMul(RInt(2), a)), RInt(1))
        THEN RDiv(RNeg(b), RMul(RInt(2), a))
        ELSE IF RLeq(RInt(0), RMul(RAdd(b, a), s)) THEN RInt(0) ELSE RInt(1)

\* an update that leaves Q unweighted: alpha * P + Q
NextPUnweighted(X, cols, alpha) ==
    LET Q == Eye(cols)
    IN  Built([i \in FreeIdx |-> [j \in FreeIdx |->
            RAdd(RMul(alpha, X[i][j]), Q[i][j])]])

\* P_i1 = alpha * P + (1 - alpha) * Q
NextP(X, cols, alpha) ==
    LET Q == Eye(cols)
    IN  Built([i \in FreeIdx |-> [j \in FreeIdx |->
            RAdd(RMul(alpha, X[i][j]), RMul(RSub(RInt(1), alpha), Q[i][j]))]])

\* np.linalg.norm(P - P_i1) / np.sqrt(n_unseed) < tol, on the squares
Converged(X, Y, t) ==
    RLess(MatSum([i \in FreeIdx |-> [j \in FreeIdx |->
              RMul(RSub(X[i][j], Y[i][j]), RSub(X[i][j], Y[i][j]))]]),
          RMul(RMul(t, t), RInt(n_unseed)))

\* the P_i1 of one round of the loop for the direction cols
Iterate(X, cols) ==
    LET co == StepCoefficients(X, cols)
    IN  NextP(X, cols, Alpha(co.a, co.b))

\* perm = np.concatenate((np.arange(n_seeds), col + n_seeds));
\* unshuffled_perm[perm_A] = perm_B[perm]
FaqPerm(col) ==
    [i \in 0..(ALen(A) - 1) |-> IF i < n_seeds THEN i ELSE col[i - n_seeds] + n_seeds]

\* a faulty unshuffle: unshuffled_perm = perm_B[perm], the reordering of A
\* never undone
UnshuffleBOnly(col) ==
    Built([x \in 0..(ALen(A) - 1) |-> perm_B[FaqPerm(col)[x]]])

Unshuffle(col) ==
    Built([x \in 0..(ALen(A) - 1) |->
        LET i == CHOOSE y \in DOMAIN perm_A : perm_A[y] = x
        IN  perm_B[FaqPerm(col)[i]]])

\* -P
Negated(X) == Built([i \in DOMAIN X |-> [j \in DOMAIN X[i] |-> RNeg(X[i][j])]])

-----------------------------------------------------------------------------
(* _quadratic_assignment_faq: the call *)

StrP0(name) == [kind |-> "str", str |-> name, mat |-> Empty]
MatP0(X) == [kind |-> "matrix", str |-> "", mat |-> X]

\* the outcomes of rng.uniform(size=(k, k)) the model draws from: two
\* matrices with entries in (0, 1) whose rows and columns all sum to 3/4, a
\* circulant one (heavy diagonal) and its mirror image
DrawWeight(k, d) ==
    IF k = 1 THEN Frac(3, 4)
    ELSE IF d = 0 THEN Frac(1, 2)
    ELSE Frac(1, 4 * (k - 1))

UniformDraw(k, w) ==
    [i \in 0..(k - 1) |-> [j \in 0..(k - 1) |->
        DrawWeight(k, IF w = 1 THEN (j - i) % k ELSE (i + j) % k)]]

UniformDraws(k) == {UniformDraw(k, w) : w \in 1..2}

\* the outcomes of rng.uniform(size=(k, k))
rng_uniform(k) == {UniformDraw(k, g.which) : g \in check_random_state}

\* the same checks with the outlier cases looked at before the options
FaqErrorAfterOutliers ==
    IF _common_input_validation(A, B, partial_match) # ""
         THEN _common_input_validation(A, B, partial_match)
    ELSE IF ALen(A) = 0 \/ Len(partial_match) = ALen(A) THEN ""
    ELSE IF P0.kind = "str" /\ P0.str \notin {"barycenter", "randomized"}
         THEN "Invalid 'P0' parameter string"
    ELSE IF maxiter <= 0 THEN "'maxiter' must be a positive integer"
    ELSE IF tol.num <= 0 THEN "'tol' must be a positive float"
    ELSE IF P0.kind = "matrix" THEN _check_init_input(P0.mat, n_unseed)
    ELSE ""

\* the first failure of the FAQ call before its loop, or "" when there is none
FaqError ==
    IF _common_input_validation(A, B, partial_match) # ""
         THEN _common_input_validation(A, B, partial_match)
    ELSE IF P0.kind = "str" /\ P0.str \notin {"barycenter", "randomized"}
         THEN "Invalid 'P0' parameter string"
    ELSE IF maxiter <= 0 THEN "'maxiter' must be a positive integer"
    ELSE IF tol.num <= 0 THEN "'tol' must be a positive float"
    ELSE IF ALen(A) = 0 \/ Len(partial_match) = ALen(A) THEN ""
    ELSE IF P0.kind = "matrix" THEN _check_init_input(P0.mat, n_unseed)
    ELSE ""

\* the call raises a ValueError
FaqRaise ==
    /\ pc = "faq"
    /\ FaqError # ""
    /\ Raise(FaqError)

\* check outlier cases
FaqTrivial ==
    /\ pc = "faq"
    /\ FaqError = ""
    /\ ALen(A) = 0 \/ Len(partial_match) = ALen(A)
    /\ Return(TrivialResult(A, B, partial_match))

\* the initial search position
InitialPs ==
    IF P0.kind = "matrix" THEN {P0.mat}
    ELSE IF P0.str = "barycenter" THEN {Barycenter(n_unseed)}
    ELSE {RandomizedP(n_unseed, _doubly_stochastic(K)) : K \in rng_uniform(n_unseed)}

\* partition of A and B and choice of the initial search position
FaqStart ==
    /\ pc = "faq"
    /\ FaqError = ""
    /\ ~(ALen(A) = 0 \/ Len(partial_match) = ALen(A))
    /\ perm_A' = ToArr(Col(partial_match, 1) \o Nonseed(ALen(A), partial_match, 1))
    /\ \E nonseed_B \in NonseedBOrders(ALen(A), partial_match, shuffle_input) :
          perm_B' = ToArr(Col(partial_match, 2) \o nonseed_B)
    /\ P' \in InitialPs
    /\ n_iter' = 0
    /\ pc' = "iterate"
    /\ storage' = [storage EXCEPT !.P =
           IF P0.kind = "matrix" THEN atleast_2d("P0") ELSE "P"]
    /\ UNCHANGED <<inputs, first, history, perm, best_score, pos, res, err, exc>>

\* the loop without its break
FaqIterateToMaxiter ==
    /\ pc = "iterate"
    /\ \E cols \in linear_sum_assignment(grad_fp(P), maximize) :
          P' = Iterate(P, cols)
    /\ pc' = IF n_iter + 1 = maxiter THEN "project" ELSE "iterate"
    /\ n_iter' = n_iter + 1
    /\ storage' = [storage EXCEPT !.P = "P_i1"]
    /\ UNCHANGED <<inputs, first, history, perm, best_score, pos, perm_A, perm_B, res, err, exc>>

\* one round of the loop: direction, step size, update; the loop is left
\* when the tolerance is met (break) or after round maxiter
FaqIterate ==
    /\ pc = "iterate"
    /\ \E cols \in linear_sum_assignment(grad_fp(P), maximize) :
          LET P_i1 == Iterate(P, cols)
          IN  /\ P' = P_i1
              /\ pc' = IF Converged(P, P_i1, tol) \/ n_iter + 1 = maxiter
                       THEN "project" ELSE "iterate"
    /\ n_iter' = n_iter + 1
    /\ storage' = [storage EXCEPT !.P = "P_i1"]
    /\ UNCHANGED <<inputs, first, history, perm, best_score, pos, perm_A, perm_B, res, err, exc>>

\* project onto the set of permutation matrices, unshuffle, score
FaqProject ==
    /\ pc = "project"
    /\ \E col \in linear_sum_assignment(Negated(P), FALSE) :
          LET unshuffled_perm == Unshuffle(col)
          IN  Return([col_ind |-> unshuffled_perm,
                      fun |-> _calc_score(A, B, unshuffled_perm),
                      nit |-> n_iter])

-----------------------------------------------------------------------------
(* The calls checked *)

\* explicit P0 matrices of the right size that are doubly stochastic: the
\* identity, the reversal, and a point inside the polytope
ExplicitP0s(k) ==
    {Eye([i \in 0..(k - 1) |-> i]),
     Eye([i \in 0..(k - 1) |-> k - 1 - i]),
     RandomizedP(k, Eye([i \in 0..(k - 1) |-> i]))}

\* the values of tol: the default 0.03 and a loose 1/2
Tols == {Frac(3, 100), Frac(1, 2)}

\* arrays passed as two-dimensional arrays
TwoDimensional == [A |-> 2, B |-> 2, partial_match |-> 2]

\* no seed for the generator, arrays of two dimensions
Unseeded ==
    /\ rng = None
    /\ ndim = TwoDimensional
    /\ lap_rule = "any"

Start ==
    /\ pc = "call"
    /\ perm = Empty
    /\ best_score = 0
    /\ n_iter = 0
    /\ pos = 0
    /\ perm_A = Empty
    /\ perm_B = Empty
    /\ P = Empty
    /\ res = NoRes
    /\ err = ""
    /\ exc = ""
    /\ first = NoRes
    /\ storage = NoStorage
    /\ history = NoHistory

\* a 2-opt call with options that pass validation
Init2opt ==
    /\ method = "2opt"
    /\ helper_bound \in BOOLEAN
    /\ \E n \in 0..MaxN :
          /\ \E inst \in Instances(n) : A = inst[1] /\ B = inst[2]
          /\ partial_match \in PairLists(n, n)
          /\ partial_guess \in PairLists(n, Min(n, MaxGuess))
    /\ maximize \in BOOLEAN
    /\ P0 = StrP0("barycenter")
    /\ maxiter = 30
    /\ tol = Frac(3, 100)
    /\ shuffle_input = FALSE
    /\ option_keys = {"maximize", "partial_match", "partial_guess"}
    /\ Unseeded
    /\ Start

\* a FAQ call with options that pass validation
InitFaq ==
    /\ method = "faq"
    /\ helper_bound = FALSE
    /\ \E n \in 0..MaxN :
          /\ \E inst \in Instances(n) : A = inst[1] /\ B = inst[2]
          /\ partial_match \in PairLists(n, n)
          /\ P0 \in {StrP0("barycenter"), StrP0("randomized")}
                    \cup {MatP0(X) : X \in ExplicitP0s(n - Len(partial_match))}
    /\ partial_guess = <<>>
    /\ maximize \in BOOLEAN
    /\ maxiter \in 1..MaxIter
    /\ tol \in Tols
    /\ shuffle_input \in BOOLEAN
    /\ option_keys = {"maximize", "partial_match", "P0", "maxiter", "tol", "shuffle_input"}
    /\ Unseeded
    /\ Start

\* explicit P0 matrices that _check_init_input has to refuse for k unseeded
\* nodes: a wrong shape, a row and column sum of 1/2, a negative entry
MalformedP0s(k) ==
    {Barycenter(k + 1),
     [i \in 0..(k - 1) |-> [j \in 0..(k - 1) |-> Frac(1, 2 * k)]],
     [i \in 0..(k - 1) |-> [j \in 0..(k - 1) |->
         IF i = j THEN Frac(k + 1, 2) ELSE Frac(-1, 2)]]}

\* an explicit P0 that _check_init_input lets through although its row and
\* column sum to 1.001: [[1.001]] for one unseeded node (larger blocks take
\* the squares of the step past 32 bits)
TolerableP0s(k) ==
    IF k = 1 THEN {[i \in {0} |-> [j \in {0} |-> Frac(1001, 1000)]]} ELSE {}

\* a 2-opt call whose partial_guess may be malformed
InitArgs2opt ==
    /\ method = "2opt"
    /\ helper_bound = TRUE
    /\ \E n \in 0..MaxNArgs :
          /\ \E inst \in Instances(n) : A = inst[1] /\ B = inst[2]
          /\ partial_match \in PairLists(n, n)
          /\ partial_guess \in ArgLists(n)
    /\ maximize \in BOOLEAN
    /\ P0 = StrP0("barycenter")
    /\ maxiter = 30
    /\ tol = Frac(3, 100)
    /\ shuffle_input = FALSE
    /\ option_keys = {"maximize", "partial_match", "partial_guess"}
    /\ Unseeded
    /\ Start

\* a FAQ call whose explicit P0 may be malformed
InitArgsFaq ==
    /\ method = "faq"
    /\ helper_bound = FALSE
    /\ \E n \in 0..MaxNArgs :
          /\ \E inst \in Instances(n) : A = inst[1] /\ B = inst[2]
          /\ partial_match \in PairLists(n, n)
          /\ P0 \in {MatP0(X) : X \in MalformedP0s(n - Len(partial_match))
                                       \cup ExplicitP0s(n - Len(partial_match))
                                       \cup TolerableP0s(n - Len(partial_match))}
    /\ partial_guess = <<>>
    /\ maximize \in BOOLEAN
    /\ maxiter = 1
    /\ tol \in Tols
    /\ shuffle_input = FALSE
    /\ option_keys = {"maximize", "partial_match", "P0", "maxiter", "tol", "shuffle_input"}
    /\ Unseeded
    /\ Start

\* a call through the dispatcher under any spelling of the method
InitDispatch ==
    /\ method \in {"faq", "FAQ", "Faq", "2opt", "2OPT", "2Opt", "sinkhorn", ""}
    /\ helper_bound = TRUE
    /\ \E n \in 0..1 : \E inst \in Instances(n) : A = inst[1] /\ B = inst[2]
    /\ partial_match = <<>>
    /\ partial_guess = <<>>
    /\ maximize = FALSE
    /\ P0 = StrP0("barycenter")
    /\ maxiter = 30
    /\ tol = Frac(3, 100)
    /\ shuffle_input = FALSE
    /\ option_keys = {}
    /\ Unseeded
    /\ Start

\* the option keys the calls are made with
OptionKeys ==
    {"maximize", "partial_guess", "P0", "maxiter", "tol", "shuffle_input", "verbose"}

\* a call with default option values under any set of option keys
InitOptions ==
    /\ method \in {"faq", "2opt"}
    /\ helper_bound \in BOOLEAN
    /\ \E n \in 0..MaxNArgs : \E inst \in Instances(n) : A = inst[1] /\ B = inst[2]
    /\ partial_match = <<>>
    /\ partial_guess = <<>>
    /\ maximize = FALSE
    /\ P0 = StrP0("barycenter")
    /\ maxiter = 30
    /\ tol = Frac(3, 100)
    /\ shuffle_input = FALSE
    /\ option_keys \in SUBSET OptionKeys
    /\ Unseeded
    /\ Start

\* the arrays A and B are passed as, each with its number of dimensions and
\* what np.atleast_2d makes of it: a scalar becomes (1, 1), a one-dimensional
\* array of k entries (1, k); of an array of three dimensions the first two
\* are kept
RawArrays(s) ==
    {[ndim |-> 0, arr |-> Rect(1, 1, s)]}
        \cup {[ndim |-> 1, arr |-> Rect(1, k, s)] : k \in 0..MaxNArgs}
        \cup {[ndim |-> 2, arr |-> Rect(0, 0, s)]}
        \cup {[ndim |-> 2, arr |-> Rect(r, c, s)] : r \in 1..MaxNArgs, c \in 0..MaxNArgs}
        \cup {[ndim |-> 3, arr |-> Rect(r, c, s)] : r \in 1..MaxNArgs, c \in 1..MaxNArgs}

\* the arrays partial_match is passed as: arrays of rows, one-dimensional
\* arrays of up to two entries (one row after np.atleast_2d), and arrays of
\* three dimensions with two columns
RawMatches ==
    {[ndim |-> 2, arr |-> p] : p \in ArgLists(MaxNArgs)}
        \cup {[ndim |-> 1, arr |-> <<row>>] :
                 row \in UNION {[1..k -> (-1)..MaxNArgs] : k \in 0..2}}
        \cup {[ndim |-> 3, arr |-> [k \in 1..m |-> <<0, 0>>]] : m \in 1..2}

\* a FAQ call with default options on arrays of any shape
InitShapes ==
    /\ method = "faq"
    /\ helper_bound = FALSE
    /\ \E a \in RawArrays(1), b \in RawArrays(2), m \in RawMatches :
          /\ A = a.arr
          /\ B = b.arr
          /\ partial_match = m.arr
          /\ ndim = [A |-> a.ndim, B |-> b.ndim, partial_match |-> m.ndim]
    /\ partial_guess = <<>>
    /\ maximize = FALSE
    /\ P0 = StrP0("barycenter")
    /\ maxiter = 30
    /\ tol = Frac(3, 100)
    /\ shuffle_input = FALSE
    /\ option_keys = {"partial_match"}
    /\ rng = None
    /\ lap_rule = "any"
    /\ Start

\* a FAQ call on inputs that pass the common validation, with option values
\* in and out of range
InitFaqOptions ==
    /\ method = "faq"
    /\ helper_bound = FALSE
    /\ \E n \in 0..MaxNArgs :
          /\ \E inst \in Instances(n) : A = inst[1] /\ B = inst[2]
          /\ partial_match \in PairLists(n, n)
    /\ P0 \in {StrP0("barycenter"), StrP0("randomized"), StrP0("identity"), StrP0("")}
    /\ partial_guess = <<>>
    /\ maximize = FALSE
    /\ maxiter \in (-1)..1
    /\ tol \in {Frac(-1, 2), RInt(0), Frac(1, 2)}
    /\ shuffle_input = FALSE
    /\ option_keys = {"partial_match", "P0", "maxiter", "tol"}
    /\ Unseeded
    /\ Start

\* the rules by which linear_sum_assignment, a function of its argument,
\* may settle a tie
LapRules == {"lowest", "highest"}

\* a call with an explicit integer seed, which fixes the generator's stream
InitRepeat ==
    /\ method \in {"faq", "2opt"}
    /\ helper_bound \in {b \in BOOLEAN : b => method = "2opt"}
    /\ \E n \in 0..MaxN :
          /\ \E inst \in Instances(n) : A = inst[1] /\ B = inst[2]
          /\ partial_match \in PairLists(n, Min(n, 1))
          /\ partial_guess \in IF method = "2opt" THEN PairLists(n, Min(n, 1)) ELSE {<<>>}
    /\ maximize = FALSE
    /\ P0 \in IF method = "faq" THEN {StrP0("barycenter"), StrP0("randomized")}
                                ELSE {StrP0("barycenter")}
    /\ maxiter = IF method = "faq" THEN MaxIter ELSE 30
    /\ tol = Frac(3, 100)
    /\ shuffle_input \in {b \in BOOLEAN : b => method = "faq"}
    /\ option_keys = {"partial_match", "rng"}
    /\ rng \in Streams
    /\ ndim = TwoDimensional
    /\ lap_rule \in LapRules
    /\ Start

\* a 2-opt call that refines a guess: any pairing of the weight patterns
\* (A = B included), guesses of up to n rows in any row order, at most one seed
InitRefine ==
    /\ method = "2opt"
    /\ helper_bound \in BOOLEAN
    /\ \E n \in 0..MaxN :
          /\ \E s, t \in 1..NumMats : A = Mat(n, s) /\ B = Mat(n, t)
          /\ partial_match \in PairLists(n, Min(n, 1))
          /\ partial_guess \in PairLists(n, n)
    /\ maximize \in BOOLEAN
    /\ P0 = StrP0("barycenter")
    /\ maxiter = 30
    /\ tol = Frac(3, 100)
    /\ shuffle_input = FALSE
    /\ option_keys = {"maximize", "partial_match", "partial_guess"}
    /\ Unseeded
    /\ Start

\* the matrices of the documented refinement example
ExampleA ==
    ToArr(<<ToArr(<<0, 5, 8, 6>>), ToArr(<<5, 0, 5, 1>>),
            ToArr(<<8, 5, 0, 2>>), ToArr(<<6, 1, 2, 0>>)>>)
ExampleB ==
    ToArr(<<ToArr(<<0, 1, 8, 4>>), ToArr(<<1, 0, 5, 2>>),
            ToArr(<<8, 5, 0, 5>>), ToArr(<<4, 2, 5, 0>>)>>)

\* guess = np.array([np.arange(A.shape[0]), col_ind]).T for any col_ind
ExampleGuesses == {[k \in 1..4 |-> <<k - 1, p[k]>>] : p \in Orderings(0..3)}

\* a 2-opt call on the matrices of the documented example that refines a
\* whole permutation, or is given it as seeds
InitExample2opt ==
    /\ method = "2opt"
    /\ helper_bound \in BOOLEAN
    /\ A = ExampleA
    /\ B = ExampleB
    /\ \E g \in ExampleGuesses :
          \/ partial_guess = g /\ partial_match = <<>>
          \/ partial_guess = <<>> /\ partial_match = g
    /\ maximize \in BOOLEAN
    /\ P0 = StrP0("barycenter")
    /\ maxiter = 30
    /\ tol = Frac(3, 100)
    /\ shuffle_input = FALSE
    /\ option_keys = {"maximize", "partial_match", "partial_guess"}
    /\ Unseeded
    /\ Start

\* the size of the calls that probe the stopping test: the smallest on
\* which a step from one permutation matrix to another has a relative
\* Frobenius norm that is a float, sqrt(4) / sqrt(4) = 1
StopN == 4

\* a pair of 4 x 4 matrices on which each round has one optimal direction
StopA == ToArr(<<ToArr(<<1, 2, 0, 1>>), ToArr(<<2, 2, 2, 0>>),
                 ToArr(<<1, 2, 0, 2>>), ToArr(<<1, 2, 1, 1>>)>>)
StopB == ToArr(<<ToArr(<<1, 2, 2, 2>>), ToArr(<<2, 2, 0, 1>>),
                 ToArr(<<2, 0, 2, 2>>), ToArr(<<1, 2, 0, 1>>)>>)

\* FAQ calls that start at a permutation matrix with tol = 1: unseeded, with
\* one seed (P0 then has the wrong shape) and fully seeded
InitStop ==
    /\ method = "faq"
    /\ helper_bound = FALSE
    /\ \/ \E s, t \in 1..NumMats : A = Mat(StopN, s) /\ B = Mat(StopN, t)
       \/ A = StopA /\ B = StopB
    /\ partial_match \in {<<>>, <<<<0, 0>>>>, [k \in 1..StopN |-> <<k - 1, k - 1>>]}
    /\ P0 \in {MatP0(Eye(c)) : c \in Perms0(StopN)}
    /\ partial_guess = <<>>
    /\ maximize \in BOOLEAN
    /\ maxiter \in 1..2
    /\ tol \in {RInt(1), Frac(1, 2)}
    /\ shuffle_input = FALSE
    /\ option_keys = {"maximize", "partial_match", "P0", "maxiter", "tol", "shuffle_input"}
    /\ Unseeded
    /\ Start

Init ==
    \/ Init2opt
    \/ InitFaq
    \/ InitArgs2opt
    \/ InitArgsFaq
    \/ InitDispatch
    \/ InitOptions

Next2opt ==
    \/ Dispatch
    \/ TwoOptRaise
    \/ TwoOptTrivial
    \/ TwoOptStart
    \/ SweepAccept
    \/ SweepReject
    \/ SweepDone

NextFaq ==
    \/ Dispatch
    \/ FaqRaise
    \/ FaqTrivial
    \/ FaqStart
    \/ FaqIterate
    \/ FaqProject

\* the steps of the calls that pass validation
NextOptions ==
    \/ DispatchTypeError
    \/ Dispatch
    \/ TwoOptRaise
    \/ TwoOptTrivial
    \/ TwoOptStart
    \/ SweepAccept
    \/ SweepReject
    \/ SweepDone
    \/ FaqTrivial
    \/ FaqStart
    \/ FaqIterate
    \/ FaqProject

\* the steps of a call made twice
NextRepeat ==
    \/ Dispatch
    \/ TwoOptRaise
    \/ TwoOptTrivial
    \/ TwoOptStart
    \/ SweepAccept
    \/ SweepReject
    \/ SweepDone
    \/ FaqTrivial
    \/ FaqStart
    \/ FaqIterate
    \/ FaqProject
    \/ Repeat

Next ==
    \/ DispatchRaise
    \/ DispatchTypeError
    \/ Dispatch
    \/ TwoOptRaise
    \/ TwoOptTrivial
    \/ TwoOptStart
    \/ SweepAccept
    \/ SweepReject
    \/ SweepDone
    \/ FaqRaise
    \/ FaqTrivial
    \/ FaqStart
    \/ FaqIterate
    \/ FaqProject

\* the calls through the dispatcher, with options that pass validation or not
Spec == Init /\ [][Next]_vars

\* the 2-opt calls with options that pass validation
Spec2opt == Init2opt /\ [][Next2opt]_vars

\* the FAQ calls, including those with a malformed explicit P0
InitFaqAll == InitFaq \/ InitArgsFaq
SpecFaq == InitFaqAll /\ [][NextFaq]_vars

\* the interpreter goes on with a call that has neither returned nor
\* raised: the position changes or a round of the loop is counted.  Stated
\* on pc and n_iter, which every step of NextFaq changes
Proceed ==
    /\ pc \in {"call", "faq", "iterate", "project"}
    /\ pc' \in {"faq", "iterate", "project", "returned", "raised"}
    /\ n_iter' \in {n_iter, n_iter + 1}
    /\ pc' # pc \/ n_iter' = n_iter + 1

\* the FAQ calls as the interpreter runs them
SpecFaqLive == InitFaqAll /\ [][NextFaq]_vars /\ WF_<<pc, n_iter>>(Proceed)

\* the interpreter goes on with a 2-opt call that has neither returned nor
\* raised: the position changes or a pair evaluation is counted.  Stated on
\* pc and n_iter, which every step of Next2opt changes
Proceed2opt ==
    /\ pc \in {"call", "2opt", "sweep"}
    /\ pc' \in {"2opt", "sweep", "returned", "raised"}
    /\ n_iter' \in {n_iter, n_iter + 1}
    /\ pc' # pc \/ n_iter' = n_iter + 1

\* the 2-opt calls as the interpreter runs them
Spec2optLive == InitRefine /\ [][Next2opt]_vars /\ WF_<<pc, n_iter>>(Proceed2opt)

\* the FAQ calls that probe the stopping test
SpecStop == InitStop /\ [][NextFaq]_vars

\* the 2-opt calls whose partial_guess may be malformed
SpecGuess == InitArgs2opt /\ [][Next2opt]_vars

\* the calls under any set of option keys
SpecOptions == InitOptions /\ [][NextOptions]_vars

\* the FAQ calls on arrays of any shape
SpecShapes == InitShapes /\ [][NextFaq]_vars

\* the FAQ calls with option values in and out of range
SpecFaqOptions == InitFaqOptions /\ [][NextFaq]_vars

\* the 2-opt calls that refine a guess
SpecRefine == InitRefine /\ [][Next2opt]_vars

\* the 2-opt calls on the matrices of the documented example
SpecExample2opt == InitExample2opt /\ [][Next2opt]_vars

\* the calls with an explicit seed, each made twice
SpecRepeat == InitRepeat /\ [][NextRepeat]_vars

-----------------------------------------------------------------------------
(* The properties checked *)

\* the objective at col: the sum over all i, j of A[i,j] * B[col[i], col[j]]
Objective(col) ==
    LET idx == 0..(ALen(A) - 1)
    IN  SumOver([i \in idx |->
                    SumOver([j \in idx |-> A[i][j] * B[col[i]][col[j]]], idx)], idx)

\* col[partial_match[k,0]] == partial_match[k,1] for every seed row k
SeedsHonoured(col) ==
    \A k \in 1..Len(partial_match) : col[partial_match[k][1]] = partial_match[k][2]

\* col has length n and holds every index 0..n-1 exactly once
IsPermutation(col) ==
    /\ DOMAIN col = 0..(ALen(A) - 1)
    /\ Range(col) = 0..(ALen(A) - 1)

\* the permutation the seeds of a fully seeded call spell out
SeedPermutation ==
    [a \in fixed_rows(partial_match) |->
        partial_match[CHOOSE k \in 1..Len(partial_match) : partial_match[k][1] = a][2]]

\* the call runs the 2-opt solver body (the helper name is bound), or FAQ
BodyRuns == Lower(method) = "faq" \/ (Lower(method) = "2opt" /\ helper_bound)

\* the call has ended
Ended == pc \in {"returned", "raised"}

\* the state from which sweeping starts
AtInitialPerm == pc = "sweep" /\ n_iter = 0

C2_FullySeededReturn ==
    (Ended /\ BodyRuns /\ ALen(A) >= 1 /\ Len(partial_match) = ALen(A))
        => /\ pc = "returned"
           /\ res.nit = 0
           /\ SeedsHonoured(res.col_ind)
           /\ res.fun = Objective(SeedPermutation)

\* C3: the col_ind the FAQ solver returns for a partial_match of m < n rows,
\* listed in any order, for either value of maximize, every P0 mode, every
\* maxiter and either value of shuffle_input, has
\* col_ind[partial_match[k,0]] == partial_match[k,1] for every seed row k
C3_FaqHonoursSeeds ==
    (pc = "returned" /\ Lower(method) = "faq" /\ Len(partial_match) < ALen(A))
        => SeedsHonoured(res.col_ind)

\* a FAQ call on 3 nodes with two seeds listed in descending order of their
\* A index, not both on the diagonal, shuffled, has iterated and returned
C3_Witness ==
    /\ pc = "returned"
    /\ Lower(method) = "faq"
    /\ ALen(A) = 3
    /\ Len(partial_match) = 2
    /\ partial_match[1][1] > partial_match[2][1]
    /\ partial_match[1][1] # partial_match[1][2]
    /\ shuffle_input
    /\ res.nit >= 1

C7_FunIsObjective ==
    pc = "returned" => res.fun = Objective(res.col_ind)

\* a 2-opt call on 3 nodes has kept at least one swap and returned a score
\* that is not zero
C7_Witness ==
    /\ pc = "returned"
    /\ Lower(method) = "2opt"
    /\ ALen(A) = 3
    /\ res.nit > Len(Pairs)
    /\ res.fun # 0

\* C8: when the 2-opt solver returns, no swap of the col_ind entries of two
\* distinct indices that are not seeded scores strictly better than fun
\* (smaller when minimizing, greater when maximize is true)
C8_LocalOptimum ==
    (pc = "returned" /\ Lower(method) = "2opt")
        => \A i, j \in (0..(ALen(A) - 1)) \ fixed_rows(partial_match) :
               i # j =>
                   IF maximize
                   THEN Objective(Swap(res.col_ind, i, j)) <= res.fun
                   ELSE Objective(Swap(res.col_ind, i, j)) >= res.fun

\* a maximizing 2-opt call on 3 nodes with no seed and a guess has kept at
\* least one swap and returned
C8_Witness ==
    /\ pc = "returned"
    /\ Lower(method) = "2opt"
    /\ maximize
    /\ ALen(A) = 3
    /\ Len(partial_match) = 0
    /\ Len(partial_guess) >= 1
    /\ res.nit > Len(Pairs)

\* partial_guess has a wrong number of columns, more than n rows, a negative
\* or >= n index, or a value repeated within a column
MalformedGuess ==
    \/ PCols(partial_guess) # 2
    \/ PRows(partial_guess) > ALen(A)
    \/ AnyNegative(partial_guess)
    \/ AnyAtLeast(partial_guess, ALen(A))
    \/ ColRepeats(partial_guess, 1)
    \/ ColRepeats(partial_guess, 2)

MalformedP0 ==
    /\ P0.kind = "matrix"
    /\ \/ NRows(P0.mat) # n_unseed
       \/ NCols(P0.mat) # n_unseed
       \/ \E i \in DOMAIN P0.mat : \E j \in DOMAIN P0.mat[i] : P0.mat[i][j].num < 0
       \/ \E i \in DOMAIN P0.mat :
              RLess(tol_ds, RAbs(RSub(AxisSum1(P0.mat, i), RInt(1))))
       \/ \E j \in DOMAIN P0.mat :
              RLess(tol_ds, RAbs(RSub(AxisSum0(P0.mat, j), RInt(1))))

\* C10: a FAQ call with a valid A, B and partial_match of m seeds (also
\* m == n) and a malformed explicit P0 raises before any iteration and
\* returns no result
C10_MalformedP0Rejected ==
    (Lower(method) = "faq" /\ MalformedP0)
        => /\ pc \notin {"iterate", "project", "returned"}
           /\ res = NoRes

\* the option keys the method does not recognize
UnknownKeys ==
    option_keys \ (IF Lower(method) = "faq" THEN FaqParams ELSE TwoOptParams)

\* C11: a call with an options key the method does not recognize fails with
\* an argument error that names an unknown key, and returns no result
C11_UnknownOptionRejected ==
    UnknownKeys # {}
        => /\ pc \notin {"sweep", "iterate", "project", "returned"}
           /\ res = NoRes
           /\ pc = "raised"
                => /\ exc \in {"ValueError", "TypeError"}
                   /\ \E k \in UnknownKeys :
                          err = "got an unexpected keyword argument " \o k

-----------------------------------------------------------------------------

Square(M) == NRows(M) = NCols(M)

\* partial_match as the contract wants it for n nodes: rows of two entries,
\* at most n of them, every entry in 0..n-1, no value twice within a column
WellFormedMatch(pm, n) ==
    /\ ndim.partial_match = 2
    /\ Len(pm) <= n
    /\ \A k \in 1..Len(pm) : Len(pm[k]) = 2 /\ pm[k][1] \in 0..(n - 1) /\ pm[k][2] \in 0..(n - 1)
    /\ \A k, l \in 1..Len(pm) : k # l => pm[k][1] # pm[l][1] /\ pm[k][2] # pm[l][2]

\* A and B as the contract wants them: of two dimensions, square, of one shape
WellFormedMatrices ==
    /\ ndim.A = 2
    /\ ndim.B = 2
    /\ Square(A)
    /\ Square(B)
    /\ NRows(A) = NRows(B)

WellFormedInput == WellFormedMatrices /\ WellFormedMatch(partial_match, NRows(A))

\* the messages of the common validation
ValidationMessages ==
    {"A must be square", "B must be square",
     "A and B must have exactly two dimensions",
     "A and B matrices must be of equal size",
     "partial_match can have only as many seeds as there are nodes",
     "partial_match must have two columns",
     "partial_match must have exactly two dimensions",
     "partial_match must contain only positive indices",
     "partial_match entries must be less than number of nodes",
     "partial_match column entries must be unique"}

\* partial_match is well-formed but for a value twice in one of its columns
OnlyRepeats(pm, n) ==
    /\ ndim.partial_match = 2
    /\ Len(pm) <= n
    /\ \A k \in 1..Len(pm) : Len(pm[k]) = 2 /\ pm[k][1] \in 0..(n - 1) /\ pm[k][2] \in 0..(n - 1)
    /\ \E k, l \in 1..Len(pm) : k # l /\ (pm[k][1] = pm[l][1] \/ pm[k][2] = pm[l][2])

\* C12: once the common validation has run, the call has passed it exactly
\* when A and B are of two dimensions, square and of one shape n x n and
\* partial_match has two columns, at most n rows, entries in 0..n-1 and no
\* value twice within a column; every other call has failed with a
\* ValueError of the validation, a non-square A with the message about
\* square, a repeated seed with the message about uniqueness
C12_ValidatorAcceptsWellFormed ==
    pc \notin {"call", "faq"}
        => /\ pc # "raised" <=> WellFormedInput
           /\ pc = "raised" => exc = "ValueError" /\ err \in ValidationMessages
           /\ ~Square(A) => err = "A must be square"
           /\ WellFormedMatrices /\ OnlyRepeats(partial_match, NRows(A))
                 => err = "partial_match column entries must be unique"

-----------------------------------------------------------------------------

\* an option value FAQ has to refuse
BadOption ==
    \/ maxiter <= 0
    \/ RLeq(tol, RInt(0))
    \/ P0.kind = "str" /\ P0.str \notin {"barycenter", "randomized"}

OptionMessages ==
    {"Invalid 'P0' parameter string", "'maxiter' must be a positive integer",
     "'tol' must be a positive float"}

\* C13: a FAQ call on inputs that pass the common validation with
\* maxiter <= 0, tol <= 0 or a P0 string other than barycenter and randomized
\* raises a ValueError about the option, whether or not every node is seeded
\* or n is 0, and has neither returned the trivial result nor iterated
C13_BadOptionRejected ==
    (_common_input_validation(A, B, partial_match) = ""
         /\ BadOption /\ pc \notin {"call", "faq"})
        => /\ pc = "raised"
           /\ exc = "ValueError"
           /\ err \in OptionMessages
           /\ res = NoRes
           /\ n_iter = 0
           /\ P = Empty

\* a fully seeded call with tol <= 0 has been refused
C13_Witness ==
    /\ pc = "raised"
    /\ err = "'tol' must be a positive float"
    /\ ALen(A) >= 1
    /\ Len(partial_match) = ALen(A)
-----------------------------------------------------------------------------

\* C14: of two calls with the same A, B, options and integer seed, by either
\* method, the second returns, and returns the col_ind, fun and nit the
\* first returned
C14_SameSeedSameResult ==
    first # NoRes
        => /\ pc # "raised"
           /\ pc = "returned" => res = first

\* a FAQ call with a randomized P0 on shuffled input has returned twice
\* after iterating
C14_Witness ==
    /\ first # NoRes
    /\ pc = "returned"
    /\ method = "faq"
    /\ P0 = StrP0("randomized")
    /\ shuffle_input
    /\ res.nit >= 1
-----------------------------------------------------------------------------

\* the FAQ call passes its checks and has a node left to match
AcceptedUnseeded == FaqError = "" /\ Len(partial_match) < ALen(A)

\* a round of the loop stays in the loop only if its tolerance test failed
\* and rounds are left, and leaves it only if the test passed or it was
\* round maxiter
LoopLeftOnFirstPass ==
    pc = "iterate"
        => /\ n_iter' = n_iter + 1
           /\ pc' = "iterate" => ~Converged(P, P', tol) /\ n_iter' < maxiter
           /\ pc' = "project" => Converged(P, P', tol) \/ n_iter' = maxiter
           /\ pc' \in {"iterate", "project"}

\* the rounds counted so far are within maxiter, nit is their number, and
\* a call in the loop or at the projection has a step to take
IterationsWithinMaxiter ==
    /\ pc = "iterate" => 0 <= n_iter /\ n_iter < maxiter
    /\ pc = "project" => 1 <= n_iter /\ n_iter <= maxiter
    /\ pc = "returned" /\ AcceptedUnseeded
          => res.nit = n_iter /\ 1 <= res.nit /\ res.nit <= maxiter
    /\ AcceptedUnseeded => pc # "raised"
    /\ pc = "iterate" => linear_sum_assignment(grad_fp(P), maximize) # {}
    /\ pc = "project" => linear_sum_assignment(Negated(P), FALSE) # {}

\* C15: a FAQ call on accepted input with an unseeded node returns, after at
\* most maxiter rounds of the loop and without an error; the nit returned is
\* between 1 and maxiter, it is the round whose tolerance test was the first
\* to pass, and it is maxiter when no round passed the test
C15_FaqTerminates ==
    /\ []IterationsWithinMaxiter
    /\ [][LoopLeftOnFirstPass]_vars
    /\ (pc = "call" /\ AcceptedUnseeded) ~> (pc = "returned")

\* a call has returned after the tolerance test passed before round maxiter
C15_Witness ==
    /\ pc = "returned"
    /\ AcceptedUnseeded
    /\ res.nit >= 1
    /\ res.nit < maxiter
-----------------------------------------------------------------------------

\* partial_guess lists a whole permutation and no seed overrides it
FullGuess ==
    /\ ALen(A) >= 1
    /\ Len(partial_guess) = ALen(A)
    /\ CheckGuess(A, partial_guess) = ""
    /\ partial_match = <<>>

\* the permutation partial_guess lists: row pg[k][1] is matched to pg[k][2]
GuessedPermutation ==
    [r \in 0..(ALen(A) - 1) |->
        LET k == CHOOSE k \in 1..Len(partial_guess) : partial_guess[k][1] = r
        IN  partial_guess[k][2]]

\* a step of the sweep keeps best_score or improves it
SweepNeverWorsens ==
    pc = "sweep" => best_score' = best_score \/ better(best_score', best_score)

\* what is returned after sweeping is best_score, and for a guess that lists
\* a whole permutation it is not worse than that permutation's score
FunNotWorseThanGuess ==
    pc = "returned" /\ ALen(A) > 0 /\ Len(partial_match) < ALen(A)
        => /\ res.fun = best_score
           /\ FullGuess => ~better(_calc_score(A, B, GuessedPermutation), res.fun)

-----------------------------------------------------------------------------

\* a call by either method on the empty problem: A and B of shape 0 x 0, no
\* seeds, no option key the method does not know
EmptyProblem ==
    /\ ALen(A) = 0
    /\ ALen(B) = 0
    /\ partial_match = <<>>
    /\ Lower(method) \in {"faq", "2opt"}
    /\ UnknownKeys = {}

\* C17: on the empty problem both solvers return an empty col_ind, fun = 0
\* and nit = 0, and do not raise
C17_EmptyProblemReturns ==
    EmptyProblem /\ pc \notin {"call", "faq", "2opt"}
        => /\ pc = "returned"
           /\ res = [col_ind |-> Empty, fun |-> 0, nit |-> 0]
-----------------------------------------------------------------------------

\* the spellings of the two method names the calls are made with
FaqSpellings == {"faq", "FAQ", "Faq"}
TwoOptSpellings == {"2opt", "2OPT", "2Opt"}

\* no solver has touched its variables
NoSolverRan ==
    /\ perm = Empty
    /\ perm_A = Empty
    /\ perm_B = Empty
    /\ P = Empty
    /\ n_iter = 0
    /\ best_score = 0
    /\ res = NoRes

\* the step the dispatcher takes: to the FAQ solver for a spelling of faq
\* (unless an option key cannot be bound to a parameter of it), to the
\* 2-opt solver for a spelling of 2opt, to a ValueError for any other name
DispatchSelects ==
    pc = "call"
        => /\ method \in FaqSpellings
                 => pc' = "faq" \/ (pc' = "raised" /\ exc' = "TypeError" /\ Unbindable # {})
           /\ method \in TwoOptSpellings => pc' = "2opt"
           /\ method \notin FaqSpellings \cup TwoOptSpellings
                 => pc' = "raised" /\ exc' = "ValueError"
                        /\ err' = "method must be in methods"

\* only the solver selected runs, and none for any other name
OnlySelectedRuns ==
    /\ pc \in {"faq", "iterate", "project"} => method \in FaqSpellings
    /\ pc \in {"2opt", "sweep"} => method \in TwoOptSpellings
    /\ method \notin FaqSpellings \cup TwoOptSpellings
          => pc \in {"call", "raised"} /\ NoSolverRan

\* C18: the dispatcher hands the call to the FAQ solver for any letter-case
\* spelling of faq and to the 2-opt solver for any letter-case spelling of
\* 2opt, and for any other method name raises a ValueError with neither
\* solver run
C18_DispatchByMethod ==
    /\ []OnlySelectedRuns
    /\ [][DispatchSelects]_vars

\* a call spelled FAQ has run the FAQ loop and returned
C18_Witness ==
    /\ method = "FAQ"
    /\ pc = "returned"
    /\ res.nit >= 1
-----------------------------------------------------------------------------

\* the call of the documented refinement example
DocumentedRefinement ==
    /\ method = "2opt"
    /\ A = ExampleA
    /\ B = ExampleB
    /\ ~maximize
    /\ partial_match = <<>>
    /\ partial_guess = <<<<0, 1>>, <<1, 0>>, <<2, 3>>, <<3, 2>>>>

\* C20: the documented 2-opt call, whose guess scores 178, returns
\* col_ind = [1, 2, 3, 0], fun = 176 and nit = 17
C20_DocumentedRefinement ==
    DocumentedRefinement
        => /\ _calc_score(A, B, GuessedPermutation) = 178
           /\ pc \notin {"call", "2opt", "sweep"}
                 => /\ pc = "returned"
                    /\ res = [col_ind |-> ToArr(<<1, 2, 3, 0>>), fun |-> 176, nit |-> 17]
-----------------------------------------------------------------------------

\* no step changes a value of the caller's arrays
CallerArraysKept == UNCHANGED <<A, B, partial_match, partial_guess, P0>>

\* no array of the caller has been written in place, and the col_ind returned
\* does not lie in partial_match or partial_guess
NoSharedStorage ==
    /\ storage.written \cap CallerArrays = {}
    /\ storage.col_ind \notin {"partial_match", "partial_guess"}
    /\ pc = "returned" => storage.col_ind # ""

\* C21: through any call, returning or raising, A, B, partial_match,
\* partial_guess and an explicit P0 keep their values, none of them is
\* written in place, and the col_ind returned shares no storage with
\* partial_match or partial_guess
C21_InputsReadOnly ==
    /\ []NoSharedStorage
    /\ [][CallerArraysKept]_vars

\* a fully seeded call has returned column 1 of its partial_match
C21_Witness ==
    /\ pc = "returned"
    /\ ALen(A) >= 1
    /\ Len(partial_match) = ALen(A)
    /\ res.col_ind = ToArr(Col(partial_match, 2))
    /\ storage.col_ind = "astype(partial_match)"
-----------------------------------------------------------------------------

\* P = np.eye(n, dtype=int)[perm]: P[i, perm[i]] = 1
PermutationMatrix(p) ==
    [i \in DOMAIN p |-> [j \in DOMAIN p |-> IF j = p[i] THEN 1 ELSE 0]]

\* M.T, X @ Y and np.trace(M) for square integer matrices of one size
Transposed(M) == [i \in DOMAIN M |-> [j \in DOMAIN M |-> M[j][i]]]
MatProduct(X, Y) ==
    [i \in DOMAIN X |-> [j \in DOMAIN X |->
        SumOver([k \in DOMAIN X |-> X[i][k] * Y[k][j]], DOMAIN X)]]
Trace(M) == SumOver([i \in DOMAIN M |-> M[i][i]], DOMAIN M)

\* np.trace(A.T @ P @ B @ P.T)
TraceForm(a, b, p) ==
    LET Pm == PermutationMatrix(p)
    IN  Trace(MatProduct(MatProduct(MatProduct(Transposed(a), Pm), b), Transposed(Pm)))

\* C22: for the matrices A and B of the call and every permutation perm of
\* 0..n-1, _calc_score(A, B, perm) is trace(A^T P B P^T) for the permutation
\* matrix P of perm
C22_ScoreIsTrace ==
    pc \in {"sweep", "returned"}
        => \A p \in Perms0(ALen(A)) : _calc_score(A, B, p) = TraceForm(A, B, p)

\* the search on 3 nodes stands at a permutation other than the identity
\* whose score, not zero, is the trace
C22_Witness ==
    /\ pc = "sweep"
    /\ ALen(A) = 3
    /\ IsPermutation(perm)
    /\ perm # [i \in 0..2 |-> i]
    /\ best_score # 0
    /\ best_score = TraceForm(A, B, perm)
\* every entry of X is >= 0 and every row and every column sums to 1
DoublyStochastic(X) ==
    /\ \A i \in DOMAIN X : \A j \in DOMAIN X[i] : X[i][j].num >= 0
    /\ \A i \in DOMAIN X : AxisSum1(X, i) = RInt(1)
    /\ \A j \in DOMAIN X : AxisSum0(X, j) = RInt(1)

\* the search starts at the barycenter or at an explicit P0 that passed
\* the validation, and that start is doubly stochastic
StartsDoublyStochastic ==
    /\ FaqError = ""
    /\ \/ P0.kind = "str" /\ P0.str = "barycenter"
       \/ P0.kind = "matrix" /\ DoublyStochastic(P0.mat)

\* cols holds every index of the unseeded block once: Q = np.eye(n_unseed)[cols]
\* is a permutation matrix
DirectionIsPermutation(cols) ==
    /\ DOMAIN cols = FreeIdx
    /\ Range(cols) = FreeIdx
    /\ \A i \in FreeIdx : AxisSum1(Eye(cols), i) = RInt(1)
    /\ \A j \in FreeIdx : AxisSum0(Eye(cols), j) = RInt(1)

\* the step of the round for the direction cols lies in [0, 1], and is 0 or
\* 1 when the quadratic coefficient a is 0
StepInUnitInterval(cols) ==
    LET co == StepCoefficients(P, cols)
        alpha == Alpha(co.a, co.b)
    IN  /\ RLeq(RInt(0), alpha) /\ RLeq(alpha, RInt(1))
        /\ co.a.num = 0 => alpha \in {RInt(0), RInt(1)}

\* C24: when the FAQ search starts at a doubly stochastic P (the barycenter
\* or a validated explicit P0), then in every round the direction Q is a
\* permutation matrix, the step alpha lies in [0, 1] (no division when a is
\* 0), and before and after every update alpha*P + (1-alpha)*Q the entries
\* of P are >= 0 and every row and column of P sums to 1
C24_PStaysInPolytope ==
    (Lower(method) = "faq" /\ pc \in {"iterate", "project"} /\ StartsDoublyStochastic)
        => /\ DoublyStochastic(P)
           /\ pc = "iterate" =>
                 \A cols \in linear_sum_assignment(grad_fp(P), maximize) :
                     /\ DirectionIsPermutation(cols)
                     /\ StepInUnitInterval(cols)
                     /\ DoublyStochastic(Iterate(P, cols))

\* after two rounds from the barycenter of a 3 x 3 block the search position
\* is strictly inside the polytope and not the barycenter
C24_Witness ==
    /\ Lower(method) = "faq"
    /\ pc = "project"
    /\ n_iter = 2
    /\ StartsDoublyStochastic
    /\ n_unseed = 3
    /\ P # Barycenter(3)
    /\ \E i \in FreeIdx : \E j \in FreeIdx :
           RLess(RInt(0), P[i][j]) /\ RLess(P[i][j], RInt(1))
    /\ DoublyStochastic(P)
\* the search position X of the unseeded block extended by the identity on
\* the seeds
WithSeeds(X) ==
    Built([i \in 0..(ALen(A) - 1) |-> [k \in 0..(ALen(A) - 1) |->
        IF i < n_seeds /\ k < n_seeds THEN RInt(IF i = k THEN 1 ELSE 0)
        ELSE IF i >= n_seeds /\ k >= n_seeds THEN X[i - n_seeds][k - n_seeds]
        ELSE RInt(0)]])

\* trace(A^T P B P^T) at the search position X, A and B in the solver's order
RelaxedObjective(X) ==
    LET Pf == WithSeeds(X)
        N == 0..(ALen(A) - 1)
    IN  MatSum([i \in N |-> [j \in N |->
            RMul(RInt(A[perm_A[i]][perm_A[j]]),
                 MatSum([k \in N |-> [l \in N |->
                     RMul(RMul(Pf[i][k], RInt(B[perm_B[k]][perm_B[l]])), Pf[j][l])]]))]])

\* the point of the segment at x: Q + x * (P - Q)
SegmentPoint(cols, x) == NextP(P, cols, x)

\* a and b are the coefficients of the objective on the segment: with
\* f(x) = a x^2 + b x + c, f(1) - f(0) = a + b and f(1/2) - f(0) = a/4 + b/2
CoefficientsOfObjective(cols) ==
    LET co == StepCoefficients(P, cols)
        f0 == RelaxedObjective(SegmentPoint(cols, RInt(0)))
    IN  /\ RSub(RelaxedObjective(SegmentPoint(cols, RInt(1))), f0) = RAdd(co.a, co.b)
        /\ RSub(RelaxedObjective(SegmentPoint(cols, Frac(1, 2))), f0)
               = RAdd(RMul(Frac(1, 4), co.a), RMul(Frac(1, 2), co.b))

\* the parabola opens the right way and its vertex lies in [0, 1]
VertexIsOptimum(a, b) ==
    /\ IF maximize THEN a.num < 0 ELSE a.num > 0
    /\ RLeq(RInt(0), RDiv(RNeg(b), RMul(RInt(2), a)))
    /\ RLeq(RDiv(RNeg(b), RMul(RInt(2), a)), RInt(1))

\* x is at least as good an objective value as y
NotWorse(x, y) == IF maximize THEN RLeq(y, x) ELSE RLeq(x, y)

\* the step of the round for the direction cols follows the rule
StepRule(cols) ==
    LET co == StepCoefficients(P, cols)
        alpha == Alpha(co.a, co.b)
        f0 == RelaxedObjective(SegmentPoint(cols, RInt(0)))
        f1 == RelaxedObjective(SegmentPoint(cols, RInt(1)))
    IN  IF VertexIsOptimum(co.a, co.b)
        THEN alpha = RDiv(RNeg(co.b), RMul(RInt(2), co.a))
        ELSE /\ alpha \in {RInt(0), RInt(1)}
             /\ alpha = RInt(0) => NotWorse(f0, f1)
             /\ alpha = RInt(1) => NotWorse(f1, f0)
             /\ f0 = f1 => alpha = RInt(0)

\* C25: in each FAQ round, with f(x) = a x^2 + b x + c the objective on the
\* segment from Q (x = 0) to P (x = 1), alpha is the vertex -b/(2a) when the
\* parabola opens the right way (a > 0 minimizing, a < 0 maximizing) and the
\* vertex lies in [0, 1]; otherwise alpha is the endpoint in {0, 1} with the
\* better objective value, and 0 on an exact tie f(0) = f(1)
C25_StepSizeRule ==
    (Lower(method) = "faq" /\ pc = "iterate")
        => \A cols \in linear_sum_assignment(grad_fp(P), maximize) :
               CoefficientsOfObjective(cols) /\ StepRule(cols)

\* a round was taken with the vertex strictly inside (0, 1): the search
\* position moved off the barycenter without reaching Q
C25_Witness ==
    /\ Lower(method) = "faq"
    /\ pc = "iterate"
    /\ n_iter = 1
    /\ P0 = StrP0("barycenter")
    /\ P # Barycenter(n_unseed)
    /\ \E i \in FreeIdx : \E j \in FreeIdx :
           RLess(RInt(0), P[i][j]) /\ RLess(P[i][j], RInt(1))
    /\ \E cols \in linear_sum_assignment(grad_fp(P), maximize) : StepRule(cols)
\* k, the number of non-seeded indices, and the pairs of one complete pass
NonSeeded == ALen(A) - Len(partial_match)
FullPass == (NonSeeded * (NonSeeded + 1)) \div 2

\* in the sweep, the evaluations made since the last accepted swap (or since
\* the start) are the first pos - 1 pairs of the current pass, none accepted
CountInSweep ==
    (Lower(method) = "2opt" /\ pc = "sweep")
        => /\ Len(Pairs) = FullPass
           /\ n_iter = history.last_accept + (pos - 1)
           /\ history.accepted = 0 <=> history.last_accept = 0

\* at the return nit is the count, at least one full pass, equal to it
\* exactly when no swap was accepted, and the last full pass accepted none
CountAtReturn ==
    (Lower(method) = "2opt" /\ pc = "returned")
        => /\ res.nit = n_iter
           /\ res.nit >= FullPass
           /\ res.nit = FullPass <=> history.accepted = 0
           /\ res.nit - history.last_accept = FullPass

\* every pair evaluation, degenerate or not, accepted or not, adds one to
\* n_iter; a degenerate pair i == j is never accepted
EvaluationCounted ==
    (Lower(method) = "2opt" /\ pc = "sweep" /\ pc' = "sweep")
        => /\ n_iter' = n_iter + 1
           /\ \/ /\ history'.accepted = history.accepted + 1
                 /\ Pairs[pos][1] # Pairs[pos][2]
                 /\ pos' = 1
              \/ /\ history'.accepted = history.accepted
                 /\ pos' = pos + 1

\* C26: the nit a 2-opt call returns is the number of pair evaluations of
\* all passes, degenerate pairs i == j (never accepted) included and an
\* accepted evaluation counted once; with k non-seeded indices
\* nit >= k*(k+1)/2, with equality exactly when no swap was accepted, and
\* the last k*(k+1)/2 evaluations form one complete pass without a swap
C26_NitCountsEvaluations ==
    [](CountInSweep /\ CountAtReturn) /\ [][EvaluationCounted]_vars

\* a call on 3 nodes without seeds returned after two accepted swaps
C26_Witness ==
    /\ Lower(method) = "2opt"
    /\ pc = "returned"
    /\ NonSeeded = 3
    /\ history.accepted = 2
    /\ res.nit > FullPass
    /\ res.nit - history.last_accept = 6
\* the non-seeded indices
FreeRows == (0..(ALen(A) - 1)) \ fixed_rows(partial_match)

\* the pairs of a pass are all (i, j) with i <= j over the non-seeded
\* indices, each once, in lexicographic order
PairsLexicographic ==
    /\ \A q \in Range(Pairs) : q[1] \in FreeRows /\ q[2] \in FreeRows /\ q[1] <= q[2]
    /\ \A i \in FreeRows : \A j \in FreeRows : i <= j => <<i, j>> \in Range(Pairs)
    /\ \A k \in 1..(Len(Pairs) - 1) :
           \/ Pairs[k][1] < Pairs[k + 1][1]
           \/ Pairs[k][1] = Pairs[k + 1][1] /\ Pairs[k][2] < Pairs[k + 1][2]

\* the score of the working permutation with the pair q swapped
SwapScore(q) == _calc_score(A, B, Swap(perm, q[1], q[2]))

\* s is strictly better than the best score
StrictlyBetter(s) == IF maximize THEN s > best_score ELSE s < best_score

\* no pair already tried in the current pass improves on the best score, so
\* a pair that is accepted is the first improving pair of its pass
EarlierPairsNotBetter ==
    (Lower(method) = "2opt" /\ pc = "sweep")
        => /\ PairsLexicographic
           /\ \A k \in 1..(pos - 1) : ~StrictlyBetter(SwapScore(Pairs[k]))

\* one pair evaluation: a strictly better swap is kept, the best score
\* updated and the pass restarted; any other swap is reverted and the next
\* pair is tried
GreedyStep ==
    (Lower(method) = "2opt" /\ pc = "sweep" /\ pc' = "sweep")
        => IF StrictlyBetter(SwapScore(Pairs[pos]))
           THEN /\ perm' = Swap(perm, Pairs[pos][1], Pairs[pos][2])
                /\ best_score' = SwapScore(Pairs[pos])
                /\ pos' = 1
           ELSE /\ perm' = perm
                /\ best_score' = best_score
                /\ pos' = pos + 1

\* C27: within a pass of 2-opt the pairs (i, j), i <= j, over the non-seeded
\* indices are tried in lexicographic order; the first pair whose swap gives
\* a strictly better score is accepted (swap kept, best score updated) and
\* the enumeration restarts from the first pair; a swap that is not
\* strictly better, an equal score included, is reverted before the next
\* pair is tried
C27_GreedyFirstImprovement ==
    []EarlierPairsNotBetter /\ [][GreedyStep]_vars

\* after an accepted swap the restarted pass has gone past a pair of two
\* different indices whose swap gives exactly the best score, reverted
C27_Witness ==
    /\ Lower(method) = "2opt"
    /\ pc = "sweep"
    /\ history.accepted >= 1
    /\ pos > 1
    /\ perm # history.perm
    /\ \E k \in 1..(pos - 1) :
           /\ Pairs[k][1] # Pairs[k][2]
           /\ SwapScore(Pairs[k]) = best_score
\* a call in the sweep has a step to take: the next pair of the pass, or
\* the end of the pass
SweepCanStep ==
    (Lower(method) = "2opt" /\ pc = "sweep") => 1 <= pos /\ pos <= Len(Pairs) + 1

\* every swap the sweep keeps strictly improves the best score, and the
\* best score changes in no other way
AcceptedSwapImproves ==
    (Lower(method) = "2opt" /\ pc = "sweep")
        => IF history'.accepted # history.accepted \/ perm' # perm
           THEN IF maximize THEN best_score' > best_score
                            ELSE best_score' < best_score
           ELSE best_score' = best_score

Rearrangement(p, q) ==
    /\ DOMAIN p = DOMAIN q
    /\ \A v \in Range(p) \cup Range(q) :
           Cardinality({i \in DOMAIN p : p[i] = v}) = Cardinality({i \in DOMAIN q : q[i] = v})

\* C29: at the start of every pair evaluation of the 2-opt sweep the working
\* permutation is a rearrangement of the initial permutation that agrees
\* with it on every seeded row, and the tracked best score is the objective
\* at the working permutation
C29_SweepInvariant ==
    (Lower(method) = "2opt" /\ pc = "sweep")
        => /\ Rearrangement(perm, history.perm)
           /\ \A r \in fixed_rows(partial_match) : perm[r] = history.perm[r]
           /\ best_score = _calc_score(A, B, perm)

\* a seeded call on 3 nodes is in a pass restarted after an accepted swap:
\* the working permutation differs from the initial one
C29_Witness ==
    /\ Lower(method) = "2opt"
    /\ pc = "sweep"
    /\ ALen(A) = 3
    /\ Len(partial_match) = 1
    /\ history.accepted >= 1
    /\ perm # history.perm
    /\ Rearrangement(perm, history.perm)
    /\ best_score = _calc_score(A, B, perm)
    /\ best_score # _calc_score(A, B, history.perm)
\* the documented stopping test: ||X - Y||_F / sqrt(n_unseed) <= t, on the
\* squares
ChangeWithinTol(X, Y, t) ==
    RLeq(MatSum([i \in FreeIdx |-> [j \in FreeIdx |->
             RMul(RSub(X[i][j], Y[i][j]), RSub(X[i][j], Y[i][j]))]]),
         RMul(RMul(t, t), RInt(n_unseed)))

\* a round ends the loop when its change is within tol, stays in the loop
\* only when it is not and rounds are left, and hands its P_i+1 on
StopsAsDocumented ==
    (Lower(method) = "faq" /\ pc = "iterate")
        => /\ ChangeWithinTol(P, P', tol) => pc' = "project"
           /\ (pc' = "iterate") => ~ChangeWithinTol(P, P', tol) /\ n_iter' < maxiter
           /\ P' \in {Iterate(P, cols) : cols \in linear_sum_assignment(grad_fp(P), maximize)}

\* C30: the FAQ iteration ends at the first round whose change in search
\* position, ||P_i - P_i+1||_F / sqrt(n - m), is less than or equal to tol
\* (a change equal to tol ends it), and the P_i+1 of that round is the one
\* projected
C30_StopsAsDocumented == [][StopsAsDocumented]_vars
=============================================================================
